---- MODULE Spec2Model ----
(***************************************************************************)
(* Model of the Explorer Shell (src/main.cpp): a command loop over the     *)
(* current directory with an application-level permission store that is    *)
(* persisted in .permissions.txt.                                          *)
(*                                                                         *)
(* Strings (names, permission strings, chmod codes) are sequences of       *)
(* one-character strings, so that indexing and concatenation are the       *)
(* operations the code performs.                                           *)
(***************************************************************************)
EXTENDS Integers, Sequences, FiniteSets, TLC

VARIABLES
    pc,           \* "Ready" (at the prompt), "Terminated" (after exit), "Aborted" (uncaught exception)
    sudoMode,     \* global bool sudoMode
    permissions,  \* global std::map<string,string> permissions
    fs,           \* the directory tree below the current directory: path -> "none" | "file" | "dir"
    permFile,     \* contents of .permissions.txt: sequence of lines <<name, perm>>
    input,        \* the last line read, as <<cmd, arg1, arg2>>
    out,          \* the last status line printed, as <<kind>> or <<kind, payload>>
    everSet,      \* names that were the target of a successful mkdir or chmod (or were loaded at startup)
    everCopied,   \* names that were the destination of a successful cp
    everMoved,    \* names that were the destination of a successful mv
    steps         \* number of lines read so far

vars == <<pc, sudoMode, permissions, fs, permFile, input, out, everSet, everCopied, everMoved, steps>>

\* Number of command lines explored per session.
MaxCmds == 3

----------------------------------------------------------------------------
(* Characters and strings *)

\* Code of a character in the execution character set (ASCII); NUL is '\0'.
Ascii(c) ==
    CASE c = "NUL" -> 0
      [] c = "-" -> 45  [] c = "." -> 46  [] c = "/" -> 47
      [] c = "0" -> 48  [] c = "1" -> 49  [] c = "2" -> 50  [] c = "3" -> 51
      [] c = "4" -> 52  [] c = "5" -> 53  [] c = "6" -> 54  [] c = "7" -> 55
      [] c = "a" -> 97  [] c = "d" -> 100 [] c = "e" -> 101 [] c = "i" -> 105
      [] c = "m" -> 109 [] c = "n" -> 110 [] c = "o" -> 111 [] c = "p" -> 112
      [] c = "r" -> 114 [] c = "s" -> 115 [] c = "t" -> 116 [] c = "w" -> 119
      [] c = "x" -> 120

\* operator< of std::string: lexicographic by character code.
RECURSIVE StrLess(_, _)
StrLess(s, t) ==
    IF s = <<>> THEN t # <<>>
    ELSE IF t = <<>> THEN FALSE
    ELSE IF Ascii(s[1]) < Ascii(t[1]) THEN TRUE
    ELSE IF Ascii(s[1]) > Ascii(t[1]) THEN FALSE
    ELSE StrLess(Tail(s), Tail(t))

\* const std::string PERM_FILE = ".permissions.txt"
PERM_FILE == <<".","p","e","r","m","i","s","s","i","o","n","s",".","t","x","t">>

\* The literal getPermission returns for a name that is not a key.
Fallback == <<"-","r","w","-","r","-","-","r","-","-">>

\* The literal makeDir stores.
DirPerm == <<"d","r","w","x","r","-","x","r","-","x">>

----------------------------------------------------------------------------
(* The directory tree *)

a == <<"a">>
d == <<"d">>

\* Entries directly in the current directory.
Top == {a, d, PERM_FILE}

Child(t) == t \o <<"/","x">>

\* Every path the model tracks: the top-level names and one entry below each.
Paths == Top \cup {Child(t) : t \in Top}

IsTop(p) == p \in Top

Parent(p) == SubSeq(p, 1, Len(p) - 2)

\* fs::exists(p); the empty path never exists.
exists(fsys, p) == p \in Paths /\ fsys[p] # "none"

\* fs::is_directory(p)
is_directory(fsys, p) == p \in Paths /\ fsys[p] = "dir"

\* The directory that would hold p exists (the current directory always does).
ParentIsDir(fsys, p) == p \in Paths /\ (IsTop(p) \/ fsys[Parent(p)] = "dir")

\* fs::is_empty(p) for a directory p.
is_empty(fsys, p) == ~(IsTop(p) /\ fsys[Child(p)] # "none")

----------------------------------------------------------------------------
(* The permission store *)

EmptyStore == [n \in {} |-> <<>>]

\* permissions[k] = v
Put(perms, k, v) == [n \in (DOMAIN perms) \cup {k} |-> IF n = k THEN v ELSE perms[n]]

\* permissions.erase(k)
Erase(perms, k) == [n \in (DOMAIN perms) \ {k} |-> perms[n]]

\* getPermission(file)
getPermission(perms, file) == IF file \in DOMAIN perms THEN perms[file] ELSE Fallback

\* The characters std::string::operator[](i) can yield (i is 0-based): the
\* character when i < size, '\0' when i = size, and any character when
\* i > size, where the read is out of bounds.
AnyChar == {"NUL", "-", "r", "w", "x", "d"}

CharAt(s, i) ==
    IF i < Len(s) THEN {s[i + 1]}
    ELSE IF i = Len(s) THEN {"NUL"}
    ELSE AnyChar

\* The least key of a non-empty key set in std::map order.
MinKey(keys) == CHOOSE k \in keys : \A j \in keys \ {k} : StrLess(k, j)

\* savePermissions writes one line "name perm\n" per entry, in key order.
RECURSIVE DumpKeys(_, _)
DumpKeys(perms, keys) ==
    IF keys = {} THEN <<>>
    ELSE LET k == MinKey(keys)
         IN  <<(<<k, perms[k]>>)>> \o DumpKeys(perms, keys \ {k})

Dump(perms) == DumpKeys(perms, DOMAIN perms)

\* The whitespace-delimited tokens of the file text: the two fields of every
\* line in order; a field of length zero contributes no token.
RECURSIVE Tokens(_)
Tokens(lines) ==
    IF lines = <<>> THEN <<>>
    ELSE (IF lines[1][1] = <<>> THEN <<>> ELSE <<lines[1][1]>>)
         \o (IF lines[1][2] = <<>> THEN <<>> ELSE <<lines[1][2]>>)
         \o Tokens(Tail(lines))

\* while (fin >> file >> perm) permissions[file] = perm;
RECURSIVE LoadTokens(_, _)
LoadTokens(perms, toks) ==
    IF Len(toks) < 2 THEN perms
    ELSE LoadTokens(Put(perms, toks[1], toks[2]), SubSeq(toks, 3, Len(toks)))

\* loadPermissions into an empty map; a missing file loads nothing.
loadPermissions(fsys, lines) ==
    IF fsys[PERM_FILE] # "file" THEN EmptyStore
    ELSE LoadTokens(EmptyStore, Tokens(lines))

\* savePermissions: std::ofstream creates or truncates PERM_FILE in the
\* current directory and writes the map; if PERM_FILE is a directory the
\* open fails and nothing is written.  Yields <<fs, permFile>>.
savePermissions(fsys, lines, perms) ==
    IF fsys[PERM_FILE] = "dir" THEN <<fsys, lines>>
    ELSE <<[fsys EXCEPT ![PERM_FILE] = "file"], Dump(perms)>>

\* The colour printPermissions picks for a permission string.
Color(perm) ==
    IF CharAt(perm, 0) = {"d"} THEN "BLUE"
    ELSE IF \E i \in 1..Len(perm) : perm[i] = "w" THEN "GREEN"
    ELSE "YELLOW"

\* conv with the masks of the read and execute bits exchanged.
convSwappedBits(c, dir) ==
    LET n == Ascii(c) - Ascii("0")
    IN  << (IF dir THEN "d" ELSE "-"),
           (IF n % 2 = 1 THEN "r" ELSE "-"),
           (IF (n \div 2) % 2 = 1 THEN "w" ELSE "-"),
           (IF (n \div 4) % 2 = 1 THEN "x" ELSE "-") >>

\* The lambda conv in chmodFile: one 4-character group per code character.
conv(c, dir) ==
    LET n == Ascii(c) - Ascii("0")
    IN  << (IF dir THEN "d" ELSE "-"),
           (IF (n \div 4) % 2 = 1 THEN "r" ELSE "-"),
           (IF (n \div 2) % 2 = 1 THEN "w" ELSE "-"),
           (IF n % 2 = 1 THEN "x" ELSE "-") >>

----------------------------------------------------------------------------
(* Filesystem primitives *)

\* fs::create_directory(name): "created" (returns true), "false" (returns
\* false: the directory already exists) or "throw" (filesystem_error: empty
\* path, missing parent).  On an existing non-directory the standard
\* library either reports the error or returns false, depending on its
\* version.
create_directory(fsys, name) ==
    IF name \notin Paths THEN {"throw"}
    ELSE IF fsys[name] = "dir" THEN {"false"}
    ELSE IF fsys[name] = "file" THEN {"throw", "false"}
    ELSE IF ~ParentIsDir(fsys, name) THEN {"throw"}
    ELSE {"created"}

\* fs::remove(name) of an existing entry succeeds unless it is a non-empty
\* directory, where it throws filesystem_error.
RemoveOk(fsys, name) == fsys[name] = "file" \/ is_empty(fsys, name)

\* fs::copy_file(src, dest, overwrite_existing) succeeds when src is a
\* regular file and dest is a different path that is absent or a regular
\* file, in an existing directory; otherwise it throws.
CopyOk(fsys, src, dest) ==
    /\ fsys[src] = "file"
    /\ dest \in Paths
    /\ dest # src
    /\ fsys[dest] # "dir"
    /\ ParentIsDir(fsys, dest)

\* fs::rename(src, dest) (POSIX rename): a file replaces a file, a directory
\* replaces an empty directory, a directory cannot move below itself, and
\* renaming a path to itself does nothing; otherwise it throws.
RenameOk(fsys, src, dest) ==
    /\ dest \in Paths
    /\ \/ src = dest
       \/ /\ ParentIsDir(fsys, dest)
          /\ ~(IsTop(src) /\ dest = Child(src))
          /\ IF fsys[src] = "file" THEN fsys[dest] # "dir"
             ELSE fsys[dest] = "none" \/ (fsys[dest] = "dir" /\ is_empty(fsys, dest))

\* The tree after a successful rename: the entry and what it contains move.
Rename(fsys, src, dest) ==
    IF src = dest THEN fsys
    ELSE [p \in Paths |->
            IF p = dest THEN fsys[src]
            ELSE IF p = src THEN "none"
            ELSE IF IsTop(dest) /\ p = Child(dest)
                 THEN (IF IsTop(src) THEN fsys[Child(src)] ELSE "none")
            ELSE IF IsTop(src) /\ p = Child(src) THEN "none"
            ELSE fsys[p]]

----------------------------------------------------------------------------
(* Command handlers.  Each yields the set of possible results of one call: *)
(* the tree, the store and the file after it, the line printed, and        *)
(* whether control returns to the loop.                                    *)

\* The handler printed msg and changed nothing.
Keep(msg) ==
    [fs |-> fs, perms |-> permissions, file |-> permFile, out |-> msg, pc |-> "Ready"]

\* An exception left the handler uncaught: std::terminate ends the process.
Throw ==
    [fs |-> fs, perms |-> permissions, file |-> permFile, out |-> <<"terminate">>, pc |-> "Aborted"]

\* The handler changed the tree and the store, then called savePermissions.
Saved(fsys, perms, msg) ==
    LET sv == savePermissions(fsys, permFile, perms)
    IN  [fs |-> sv[1], perms |-> perms, file |-> sv[2], out |-> msg, pc |-> "Ready"]

listFiles ==
    {Keep(<<"Listing", {<<Color(getPermission(permissions, n)), getPermission(permissions, n), n>> :
                          n \in {t \in Top : fs[t] # "none"}}>>)}

makeDir(name) ==
    { IF c = "created"
        THEN Saved([fs EXCEPT ![name] = "dir"], Put(permissions, name, DirPerm), <<"DirectoryCreated">>)
      ELSE IF c = "false" THEN Keep(<<"FailedToCreate">>)
      ELSE Throw : c \in create_directory(fs, name) }

removeDir(name) ==
    IF ~exists(fs, name) THEN {Keep(<<"NotFound">>)}
    ELSE IF ~is_directory(fs, name) THEN {Keep(<<"NotADirectory">>)}
    ELSE IF is_empty(fs, name)
         THEN {Saved([fs EXCEPT ![name] = "none"], Erase(permissions, name), <<"DirectoryRemoved">>)}
    ELSE {Keep(<<"DirectoryNotEmpty">>)}

\* deleteFile with the removal ahead of the permission check.
deleteFileRemoveFirst(name) ==
    IF ~exists(fs, name) THEN {Keep(<<"FileNotFound">>)}
    ELSE { IF ~RemoveOk(fs, name) THEN Throw
           ELSE IF ~sudoMode /\ c # "w"
                THEN [Keep(<<"PermissionDenied">>) EXCEPT !.fs = [fs EXCEPT ![name] = "none"]]
           ELSE Saved([fs EXCEPT ![name] = "none"], Erase(permissions, name), <<"Deleted">>)
         : c \in CharAt(getPermission(permissions, name), 2) }

deleteFile(name) ==
    IF ~exists(fs, name) THEN {Keep(<<"FileNotFound">>)}
    ELSE { IF ~sudoMode /\ c # "w" THEN Keep(<<"PermissionDenied">>)
           ELSE IF ~RemoveOk(fs, name) THEN Throw
           ELSE Saved([fs EXCEPT ![name] = "none"], Erase(permissions, name), <<"Deleted">>)
         : c \in CharAt(getPermission(permissions, name), 2) }

chmodFile(name, permCode) ==
    IF ~exists(fs, name) THEN {Keep(<<"NotFound">>)}
    ELSE IF Len(permCode) # 3 THEN {Keep(<<"UseFormat">>)}
    ELSE LET isDir == is_directory(fs, name)
             p == conv(permCode[1], isDir) \o conv(permCode[2], FALSE) \o conv(permCode[3], FALSE)
         IN  {Saved(fs, Put(permissions, name, p), <<"Changed", p>>)}

showPerm(name) ==
    IF ~exists(fs, name) THEN {Keep(<<"NotFound">>)}
    ELSE {Keep(<<"Perm", getPermission(permissions, name)>>)}

copyFileCmd(src, dest) ==
    IF ~exists(fs, src) THEN {Keep(<<"SourceNotFound">>)}
    ELSE { IF ~sudoMode /\ c # "r" THEN Keep(<<"PermissionDenied">>)
           ELSE IF ~CopyOk(fs, src, dest) THEN Keep(<<"CopyFailed">>)
           ELSE Saved([fs EXCEPT ![dest] = "file"],
                      Put(permissions, dest, getPermission(permissions, src)), <<"Copied">>)
         : c \in CharAt(getPermission(permissions, src), 1) }

\* moveFileCmd without permissions.erase(src).
moveFileCmdKeepsSource(src, dest) ==
    IF ~exists(fs, src) THEN {Keep(<<"SourceNotFound">>)}
    ELSE { IF ~sudoMode /\ c # "w" THEN Keep(<<"PermissionDenied">>)
           ELSE IF ~RenameOk(fs, src, dest) THEN Keep(<<"MoveFailed">>)
           ELSE LET p1 == IF src \in DOMAIN permissions THEN permissions
                          ELSE Put(permissions, src, <<>>)
                IN  Saved(Rename(fs, src, dest), Put(p1, dest, p1[src]), <<"Moved">>)
         : c \in CharAt(getPermission(permissions, src), 2) }

\* permissions[dest] = permissions[src]: operator[] inserts an empty string
\* for a src that is not a key, and that value is what dest receives.
moveFileCmd(src, dest) ==
    IF ~exists(fs, src) THEN {Keep(<<"SourceNotFound">>)}
    ELSE { IF ~sudoMode /\ c # "w" THEN Keep(<<"PermissionDenied">>)
           ELSE IF ~RenameOk(fs, src, dest) THEN Keep(<<"MoveFailed">>)
           ELSE LET p1 == IF src \in DOMAIN permissions THEN permissions
                          ELSE Put(permissions, src, <<>>)
                    p2 == Put(p1, dest, p1[src])
                IN  Saved(Rename(fs, src, dest), Erase(p2, src), <<"Moved">>)
         : c \in CharAt(getPermission(permissions, src), 2) }

----------------------------------------------------------------------------
(* The command loop *)

\* Arguments typed at the prompt; <<>> is a missing argument.
Args == {a, d, Child(d), PERM_FILE, <<>>}

\* chmod codes typed at the prompt: one without the write bit, one without
\* the read bit, one of the wrong length.
Codes == {<<"5","0","0">>, <<"2","0","0">>, <<"7","5">>}

\* A tree with file a, directory d and, below d, an entry of kind x.
Tree(ka, kd, kx, kp) ==
    [p \in Paths |-> IF p = a THEN ka
                     ELSE IF p = d THEN kd
                     ELSE IF p = Child(d) THEN kx
                     ELSE IF p = PERM_FILE THEN kp
                     ELSE "none"]

\* Trees the session can start in: an empty directory, and directories
\* holding entries created outside the program, with or without a
\* permission file left by an earlier session.
InitTrees ==
    { Tree("none", "none", "none", "none"),
      Tree("file", "dir", "none", "none"),
      Tree("file", "dir", "file", "none"),
      Tree("file", "dir", "none", "file") }

\* Stores an earlier session can have saved for a tree.
InitStores(f) ==
    {EmptyStore}
    \cup (IF f[a] = "file" THEN {[n \in {a} |-> conv("4", FALSE) \o conv("4", FALSE) \o conv("4", FALSE)]} ELSE {})

\* The end of an iteration without the reset.
ResetSkipped(s) == s

\* sudoMode = false at the end of every iteration ("sudo lasts one command").
Reset(s) == FALSE

\* main before the loop: globals initialised, loadPermissions called.
Init ==
    /\ pc = "Ready"
    /\ sudoMode = FALSE
    /\ fs \in InitTrees
    /\ permFile \in (IF fs[PERM_FILE] = "file" THEN {Dump(st) : st \in InitStores(fs)} ELSE {<<>>})
    /\ permissions = loadPermissions(fs, permFile)
    /\ input = <<"", <<>>, <<>>>>
    /\ out = <<"Banner">>
    /\ everSet = DOMAIN permissions
    /\ everCopied = {}
    /\ everMoved = {}
    /\ steps = 0

\* The loop is at the prompt and reads another line.
AtPrompt == pc = "Ready" /\ steps < MaxCmds

\* One iteration of the loop that dispatched a handler with result r.
Step(inp, r) ==
    /\ input' = inp
    /\ steps' = steps + 1
    /\ pc' = r.pc
    /\ fs' = r.fs
    /\ permissions' = r.perms
    /\ permFile' = r.file
    /\ out' = r.out
    /\ sudoMode' = (IF r.pc = "Ready" THEN Reset(sudoMode) ELSE sudoMode)
    /\ everSet' = (IF r.out[1] \in {"DirectoryCreated", "Changed"} THEN everSet \cup {inp[2]} ELSE everSet)
    /\ everCopied' = (IF r.out[1] = "Copied" THEN everCopied \cup {inp[3]} ELSE everCopied)
    /\ everMoved' = (IF r.out[1] = "Moved" THEN everMoved \cup {inp[3]} ELSE everMoved)

\* The model tracks one level below each top-level entry: a directory that
\* holds an entry is moved only to a top-level name.
Tracked(src, dest) ==
    ~(src \in Top /\ fs[src] = "dir" /\ ~is_empty(fs, src) /\ dest \in Paths \ Top /\ dest # Child(src))

ExitCmd ==
    /\ AtPrompt
    /\ pc' = "Terminated"
    /\ input' = <<"exit", <<>>, <<>>>>
    /\ out' = <<"Goodbye">>
    /\ steps' = steps + 1
    /\ UNCHANGED <<sudoMode, permissions, fs, permFile, everSet, everCopied, everMoved>>

LsCmd == AtPrompt /\ \E r \in listFiles : Step(<<"ls", <<>>, <<>>>>, r)

MkdirCmd == AtPrompt /\ \E name \in Args : \E r \in makeDir(name) : Step(<<"mkdir", name, <<>>>>, r)

RmdirCmd == AtPrompt /\ \E name \in Args : \E r \in removeDir(name) : Step(<<"rmdir", name, <<>>>>, r)

DelCmd == AtPrompt /\ \E name \in Args : \E r \in deleteFile(name) : Step(<<"del", name, <<>>>>, r)

ChmodCmd == AtPrompt /\ \E name \in Args, code \in Codes : \E r \in chmodFile(name, code) : Step(<<"chmod", name, code>>, r)

PermCmd == AtPrompt /\ \E name \in Args : \E r \in showPerm(name) : Step(<<"perm", name, <<>>>>, r)

CpCmd == AtPrompt /\ \E src \in Args, dest \in Args : \E r \in copyFileCmd(src, dest) : Step(<<"cp", src, dest>>, r)

MvCmd ==
    AtPrompt /\ \E src \in Args, dest \in Args :
        /\ Tracked(src, dest)
        /\ \E r \in moveFileCmd(src, dest) : Step(<<"mv", src, dest>>, r)

HelpCmd == AtPrompt /\ Step(<<"help", <<>>, <<>>>>, Keep(<<"Help">>))

\* sudoMode = true, the message, then the reset at the end of the iteration.
SudoCmd ==
    /\ AtPrompt
    /\ input' = <<"sudo", <<>>, <<>>>>
    /\ out' = <<"SudoActive">>
    /\ steps' = steps + 1
    /\ sudoMode' = Reset(TRUE)
    /\ UNCHANGED <<pc, permissions, fs, permFile, everSet, everCopied, everMoved>>

\* An empty line: continue, which skips the reset and prints nothing.
EmptyCmd ==
    /\ AtPrompt
    /\ input' = <<"", <<>>, <<>>>>
    /\ steps' = steps + 1
    /\ UNCHANGED <<pc, sudoMode, permissions, fs, permFile, out, everSet, everCopied, everMoved>>

UnknownCmd == AtPrompt /\ Step(<<"unknown", <<>>, <<>>>>, Keep(<<"UnknownCommand">>))

Next ==
    \/ ExitCmd
    \/ LsCmd
    \/ MkdirCmd
    \/ RmdirCmd
    \/ DelCmd
    \/ ChmodCmd
    \/ PermCmd
    \/ CpCmd
    \/ MvCmd
    \/ HelpCmd
    \/ SudoCmd
    \/ EmptyCmd
    \/ UnknownCmd

Spec == Init /\ [][Next]_vars

----------------------------------------------------------------------------
(* Sessions whose first line is a chmod with any code, followed by perm.   *)

Digits == {"0", "1", "2", "3", "4", "5", "6", "7"}

\* Every 3-digit octal code, and codes of length 0, 2 and 4.
AllCodes ==
    {<<x, y, z>> : x \in Digits, y \in Digits, z \in Digits}
    \cup {<<>>, <<"7","5">>, <<"0","7","5","5">>}

InitChmod == Init /\ fs = Tree("file", "dir", "none", "none")

ChmodFirstCmd ==
    /\ AtPrompt
    /\ steps = 0
    /\ \E name \in {a, d, Child(d)}, code \in AllCodes :
         \E r \in chmodFile(name, code) : Step(<<"chmod", name, code>>, r)

NextChmod == ChmodFirstCmd \/ PermCmd

SpecChmod == InitChmod /\ [][NextChmod]_vars

----------------------------------------------------------------------------
(* Properties *)

\* Status lines of the commands that insert or erase a store entry.
Mutations == {"DirectoryCreated", "DirectoryRemoved", "Deleted", "Changed", "Copied", "Moved"}

\* C1: the command dispatched immediately after a sudo command runs with the
\* override: a del, cp or mv of an existing name that follows sudo is never
\* refused with PermissionDenied.
C1_SudoOverridesNextCommand ==
    [][ (input[1] = "sudo" /\ input'[1] \in {"del", "cp", "mv"} /\ exists(fs, input'[2]))
          => out'[1] # "PermissionDenied" ]_vars

\* C2: writing any reachable store with savePermissions and reading the
\* text back with loadPermissions into an empty store gives the same mapping.
C2_RoundTrip ==
    pc = "Ready" => LoadTokens(EmptyStore, Tokens(Dump(permissions))) = permissions

\* C3: a successful mv SRC DEST (SRC and DEST different) sets DEST to
\* get(SRC) as it was before the move and erases SRC.
C3_MoveCarriesPermission ==
    [][ (out'[1] = "Moved" /\ steps' # steps /\ input'[1] = "mv" /\ input'[2] # input'[3])
          => /\ input'[3] \in DOMAIN permissions'
             /\ permissions'[input'[3]] = getPermission(permissions, input'[2])
             /\ input'[2] \notin DOMAIN permissions' ]_vars

\* C4 as stated, in sessions without a mv: every name that was never the
\* target of a chmod or mkdir has the fallback permission.
C4_NeverSetHasFallback ==
    everMoved = {} => \A n \in Paths \ everSet : getPermission(permissions, n) = Fallback

\* C4 amended: every name that was never the target of a successful chmod or
\* mkdir, and never the destination of a successful cp or mv, has the
\* fallback permission.
C4_NeverSetNorDestHasFallback ==
    \A n \in Paths \ (everSet \cup everCopied \cup everMoved) : getPermission(permissions, n) = Fallback

\* An existing name that no command targeted, next to a copy that carries a
\* permission other than the fallback.
C4_Witness ==
    /\ out[1] = "Copied"
    /\ getPermission(permissions, input[3]) # Fallback
    /\ \E n \in Paths \ (everSet \cup everCopied \cup everMoved) : exists(fs, n)

\* The permission string has a character at 0-based index i and it is not ch.
Lacks(perm, i, ch) == Len(perm) > i /\ perm[i + 1] # ch

\* C5: without sudo, del X and mv S D of an existing name whose 3rd
\* permission character is not 'w', and cp S D of an existing name whose 2nd
\* permission character is not 'r', print PermissionDenied; and a command
\* that prints PermissionDenied leaves the tree, the store and the
\* permission file unchanged.
C5_RefusalChangesNothing ==
    [][ /\ ( /\ steps' # steps
             /\ ~sudoMode
             /\ exists(fs, input'[2])
             /\ \/ input'[1] \in {"del", "mv"} /\ Lacks(getPermission(permissions, input'[2]), 2, "w")
                \/ input'[1] = "cp" /\ Lacks(getPermission(permissions, input'[2]), 1, "r") )
           => out'[1] = "PermissionDenied"
        /\ (steps' # steps /\ out'[1] = "PermissionDenied")
           => UNCHANGED <<fs, permissions, permFile>> ]_vars

\* A del of an existing, write-protected name was refused.
C5_Witness ==
    /\ input[1] = "del"
    /\ out[1] = "PermissionDenied"
    /\ exists(fs, input[2])
    /\ Lacks(getPermission(permissions, input[2]), 2, "w")

\* C6: every command other than exit returns to the prompt; the loop ends
\* only by exit.
C6_NoErrorIsFatal ==
    pc = "Ready" \/ (pc = "Terminated" /\ input[1] = "exit")

\* C7: after a command that inserted or erased a store entry, the permission
\* file holds exactly one line per store entry; after a successful mkdir X
\* the store and the file give X the value drwxr-xr-x.
C7_FileMirrorsStore ==
    (pc = "Ready" /\ out[1] \in Mutations)
      => /\ fs[PERM_FILE] = "file"
         /\ {permFile[i] : i \in 1..Len(permFile)} = {<<k, permissions[k]>> : k \in DOMAIN permissions}
         /\ Len(permFile) = Cardinality(DOMAIN permissions)
         /\ out[1] = "DirectoryCreated"
              => /\ getPermission(permissions, input[2]) = DirPerm
                 /\ \E i \in 1..Len(permFile) : permFile[i] = <<input[2], DirPerm>>

\* The r/w/x triplet of an octal digit.
Triplet(digit) ==
    CASE digit = "0" -> <<"-","-","-">> [] digit = "1" -> <<"-","-","x">>
      [] digit = "2" -> <<"-","w","-">> [] digit = "3" -> <<"-","w","x">>
      [] digit = "4" -> <<"r","-","-">> [] digit = "5" -> <<"r","-","x">>
      [] digit = "6" -> <<"r","w","-">> [] digit = "7" -> <<"r","w","x">>

\* The string chmod is to store for a code of three octal digits.
Decoded(dir, code) ==
    <<(IF dir THEN "d" ELSE "-")>> \o Triplet(code[1])
    \o <<"-">> \o Triplet(code[2])
    \o <<"-">> \o Triplet(code[3])

\* C8: chmod X CODE of an existing X with a code of three octal digits
\* stores the three decoded groups; with a code of another length, or a
\* name that does not exist, the store is unchanged; a perm of a directory
\* right after its chmod 700 shows a string starting with drwx.
C8_ChmodStoresDecodedGroups ==
    [][ /\ (steps' # steps /\ input'[1] = "chmod")
           => IF exists(fs, input'[2]) /\ Len(input'[3]) = 3
              THEN (\A i \in 1..3 : input'[3][i] \in Digits)
                     => /\ input'[2] \in DOMAIN permissions'
                        /\ permissions'[input'[2]] = Decoded(is_directory(fs, input'[2]), input'[3])
              ELSE permissions' = permissions
        /\ ( /\ steps > 0
             /\ steps' # steps
             /\ input[1] = "chmod"
             /\ input[3] = <<"7","0","0">>
             /\ is_directory(fs, input[2])
             /\ input' = <<"perm", input[2], <<>>>> )
           => /\ out'[1] = "Perm"
              /\ SubSeq(out'[2], 1, 4) = <<"d","r","w","x">> ]_vars

\* perm shows drwx-------- for a directory.
C8_Witness ==
    /\ input[1] = "perm"
    /\ is_directory(fs, input[2])
    /\ out[1] = "Perm"
    /\ out[2] = <<"d","r","w","x","-","-","-","-","-","-","-","-">>

C10_KeysNameExistingEntries ==
    pc = "Ready" => \A k \in DOMAIN permissions : exists(fs, k)

====
